---- MODULE Spec2Model ----
(***************************************************************************)
(* VKinder: the interaction store (database.py, class Database) and the    *)
(* VK search service (vk_service.py, class VKService).                     *)
(*                                                                         *)
(* A table is a bag (multiset) of rows: SQL tables are multisets, and the  *)
(* SERIAL id column, which no statement of database.py reads, is left to   *)
(* the multiplicity.  The created_at / updated_at columns of users,        *)
(* favorites and blacklist are never compared by any statement except the  *)
(* ORDER BY of get_favorites, whose result is modelled up to order; they   *)
(* are not columns of the model.  viewed_at is, because cleanup_old_viewed *)
(* compares it with NOW().                                                 *)
(***************************************************************************)
EXTENDS Integers, Sequences, FiniteSets, Bags, TLC

VARIABLES
    users,            \* table users
    favorites,        \* table favorites
    blacklist,        \* table blacklist
    viewed_profiles,  \* table viewed_profiles
    connection,       \* Database.connection: "open" or "closed"
    now,              \* the store's clock NOW(), in days
    SEARCH_CONFIG,    \* config.SEARCH_CONFIG, the search configuration
    current_year,     \* time.localtime().tm_year
    user_info,        \* the requester profile the search service is given
    bdate,            \* the birth date string _calculate_age is given
    photos_response,  \* what photos.get answers for the profile album
    response,         \* what the external search capability answers
    calls,            \* the call each process has made to its Database
    last              \* the last call made and what it returned

store == <<users, favorites, blacklist, viewed_profiles, connection, now>>

inputs == <<SEARCH_CONFIG, current_year, user_info, bdate, photos_response>>

vars == <<store, inputs, response, last, calls>>

tables == <<users, favorites, blacklist, viewed_profiles>>

(***************************************************************************)
(* Bounds of the model.                                                    *)
(***************************************************************************)
MaxTime == 1
MaxDays == 1

UserIds == {1, 2}
CandidateIds == {1}
Days == 0..MaxDays

\* Python's None where an int is optional (an age, a result): no int the
\* code computes or stores equals it.
None == 0 - 1

\* (first_name, last_name) of a favorite; ('', '') is the default of the code.
Names == {<<"", "">>, <<"Anna", "Ivanova">>}

(***************************************************************************)
(* Bags of rows.                                                           *)
(***************************************************************************)
\* the rows of a table that are in a set of rows, each as often as in the table
Where(table, rows) == [r \in rows \cap DOMAIN table |-> table[r]]

Insert(table, row) == table (+) SetToBag({row})

RowCount(table) == BagCardinality(table)

(***************************************************************************)
(* Constraints of create_tables.                                           *)
(***************************************************************************)
\* PRIMARY KEY / REFERENCES users(user_id): a row of users with this id
UserExists(user_id) == \E r \in DOMAIN users : r.user_id = user_id

\* UNIQUE(user_id, candidate_id): a row of the table with this pair
PairExists(table, user_id, candidate_id) ==
    \E r \in DOMAIN table : r.user_id = user_id /\ r.candidate_id = candidate_id

\* Faulty variant: a closed connection still answers
StoreFails_Never == FALSE

\* psycopg2 raises InterfaceError, a psycopg2.Error, on a closed connection
StoreFails == connection = "closed"

\* The record of a call: the operation, its arguments, what it returned, and
\* in "before" what the same operation returned when the call just before
\* this one was made with the same arguments (empty otherwise).
Call(op, user_id, candidate_id, ret) ==
    [op |-> op, user_id |-> user_id, candidate_id |-> candidate_id, ret |-> ret,
     before |-> IF last.op = op /\ last.user_id = user_id
                   /\ last.candidate_id = candidate_id
                THEN <<last.ret>> ELSE <<>>]

\* The record of a call of the search service, which keeps no "before".
ServiceCall(op, user_id, ret) ==
    [op |-> op, user_id |-> user_id, candidate_id |-> 0, ret |-> ret, before |-> <<>>]

(***************************************************************************)
(* Read operations: functions of the state.                                *)
(***************************************************************************)
get_favorites(user_id) ==
    IF StoreFails THEN EmptyBag
    ELSE BagOfAll(LAMBDA r : [candidate_id |-> r.candidate_id,
                              first_name |-> r.first_name,
                              last_name |-> r.last_name],
                  Where(favorites, {r \in DOMAIN favorites : r.user_id = user_id}))

get_blacklist(user_id) ==
    IF StoreFails THEN EmptyBag
    ELSE BagOfAll(LAMBDA r : r.candidate_id,
                  Where(blacklist, {r \in DOMAIN blacklist : r.user_id = user_id}))

\* Faulty variant: the viewed candidates of every user are returned
get_viewed_profiles_AllUsers(user_id) ==
    IF StoreFails THEN EmptyBag
    ELSE BagOfAll(LAMBDA r : r.candidate_id, viewed_profiles)

get_viewed_profiles(user_id) ==
    IF StoreFails THEN EmptyBag
    ELSE BagOfAll(LAMBDA r : r.candidate_id,
                  Where(viewed_profiles, {r \in DOMAIN viewed_profiles : r.user_id = user_id}))

\* Faulty variant: the rows of every user are counted
CountFor_AllUsers(table, user_id) == BagCardinality(table)

\* SELECT COUNT(*) FROM table WHERE user_id = %s
CountFor(table, user_id) ==
    BagCardinality(Where(table, {r \in DOMAIN table : r.user_id = user_id}))

get_user_stats(user_id) ==
    IF StoreFails
    THEN [favorites_count |-> 0, blacklist_count |-> 0, viewed_count |-> 0]
    ELSE [favorites_count |-> CountFor(favorites, user_id),
          blacklist_count |-> CountFor(blacklist, user_id),
          viewed_count |-> CountFor(viewed_profiles, user_id)]

is_in_blacklist(user_id, candidate_id) ==
    IF StoreFails THEN FALSE ELSE PairExists(blacklist, user_id, candidate_id)

is_in_favorites(user_id, candidate_id) ==
    IF StoreFails THEN FALSE ELSE PairExists(favorites, user_id, candidate_id)

(***************************************************************************)
(* Write operations.                                                       *)
(***************************************************************************)
UserRow(info) ==
    [user_id |-> info.id, first_name |-> info.first_name,
     last_name |-> info.last_name, age |-> info.age,
     city |-> info.city, country |-> info.country,
     sex |-> info.sex]

\* Faulty variant: ON CONFLICT (user_id) DO NOTHING
Upsert_DoNothing(table, row) ==
    IF \E r \in DOMAIN table : r.user_id = row.user_id THEN table
    ELSE Insert(table, row)

\* INSERT ... ON CONFLICT (user_id) DO UPDATE SET ...
Upsert(table, row) ==
    IF \E r \in DOMAIN table : r.user_id = row.user_id
    THEN BagOfAll(LAMBDA r : IF r.user_id = row.user_id THEN row ELSE r, table)
    ELSE Insert(table, row)

add_user(info) ==
    /\ IF StoreFails
       THEN /\ last' = Call("add_user", info.id, 0, FALSE)
            /\ UNCHANGED users
       ELSE /\ users' = Upsert(users, UserRow(info))
            /\ last' = Call("add_user", info.id, 0, TRUE)
    /\ UNCHANGED <<favorites, blacklist, viewed_profiles, connection, now, inputs, response, calls>>

\* Faulty variant: favorites has no foreign key to users
FavoritesInsertFails_NoForeignKey(user_id, candidate_id) ==
    StoreFails \/ PairExists(favorites, user_id, candidate_id)

\* Faulty variant: the UNIQUE constraint of favorites is missing
FavoritesInsertFails_NoUnique(user_id, candidate_id) ==
    StoreFails \/ ~UserExists(user_id)

\* INSERT INTO favorites: IntegrityError on the foreign key or on the
\* UNIQUE pair, any other psycopg2.Error on a failing store.
FavoritesInsertFails(user_id, candidate_id) ==
    \/ StoreFails
    \/ ~UserExists(user_id)
    \/ PairExists(favorites, user_id, candidate_id)

add_to_favorites(user_id, candidate_id, first_name, last_name) ==
    /\ IF FavoritesInsertFails(user_id, candidate_id)
       THEN /\ last' = Call("add_to_favorites", user_id, candidate_id, FALSE)
            /\ UNCHANGED favorites
       ELSE /\ favorites' = Insert(favorites,
                                   [user_id |-> user_id,
                                    candidate_id |-> candidate_id,
                                    first_name |-> first_name,
                                    last_name |-> last_name])
            /\ last' = Call("add_to_favorites", user_id, candidate_id, TRUE)
    /\ UNCHANGED <<users, blacklist, viewed_profiles, connection, now, inputs, response, calls>>

\* Faulty variant: the ON CONFLICT clause is missing and the row is inserted again
InsertOrIgnore_Always(table, user_id, candidate_id, row) == Insert(table, row)

\* INSERT ... ON CONFLICT (user_id, candidate_id) DO NOTHING
InsertOrIgnore(table, user_id, candidate_id, row) ==
    IF PairExists(table, user_id, candidate_id) THEN table ELSE Insert(table, row)

\* Faulty variant: a conflict is an error, as it is for favorites
IgnoringInsertFails_OnConflict(table, user_id, candidate_id) ==
    StoreFails \/ PairExists(table, user_id, candidate_id) \/ ~UserExists(user_id)

\* The foreign key is checked for a row that is inserted, not for one that
\* the conflict clause skips.
IgnoringInsertFails(table, user_id, candidate_id) ==
    \/ StoreFails
    \/ ~PairExists(table, user_id, candidate_id) /\ ~UserExists(user_id)

\* Faulty variant: a blacklisted candidate is taken out of the favorites
add_to_blacklist_Unfavorites(user_id, candidate_id) ==
    /\ IF IgnoringInsertFails(blacklist, user_id, candidate_id)
       THEN /\ last' = Call("add_to_blacklist", user_id, candidate_id, FALSE)
            /\ UNCHANGED <<blacklist, favorites>>
       ELSE /\ blacklist' = InsertOrIgnore(blacklist, user_id, candidate_id,
                                [user_id |-> user_id, candidate_id |-> candidate_id])
            /\ favorites' = Where(favorites, {r \in DOMAIN favorites :
                                   ~(r.user_id = user_id /\ r.candidate_id = candidate_id)})
            /\ last' = Call("add_to_blacklist", user_id, candidate_id, TRUE)
    /\ UNCHANGED <<users, viewed_profiles, connection, now, inputs, response, calls>>

add_to_blacklist(user_id, candidate_id) ==
    /\ IF IgnoringInsertFails(blacklist, user_id, candidate_id)
       THEN /\ last' = Call("add_to_blacklist", user_id, candidate_id, FALSE)
            /\ UNCHANGED blacklist
       ELSE /\ blacklist' = InsertOrIgnore(blacklist, user_id, candidate_id,
                                [user_id |-> user_id, candidate_id |-> candidate_id])
            /\ last' = Call("add_to_blacklist", user_id, candidate_id, TRUE)
    /\ UNCHANGED <<users, favorites, viewed_profiles, connection, now, inputs, response, calls>>

add_to_viewed(user_id, candidate_id) ==
    /\ IF IgnoringInsertFails(viewed_profiles, user_id, candidate_id)
       THEN /\ last' = Call("add_to_viewed", user_id, candidate_id, FALSE)
            /\ UNCHANGED viewed_profiles
       ELSE /\ viewed_profiles' =
                   InsertOrIgnore(viewed_profiles, user_id, candidate_id,
                                  [user_id |-> user_id, candidate_id |-> candidate_id,
                                   viewed_at |-> now])
            /\ last' = Call("add_to_viewed", user_id, candidate_id, TRUE)
    /\ UNCHANGED <<users, favorites, blacklist, connection, now, inputs, response, calls>>

\* Faulty variant: the statement deletes nothing
Delete_Nothing(table, rows) == table

\* DELETE FROM table WHERE the row is one of rows
Delete(table, rows) == Where(table, DOMAIN table \ rows)

clear_favorites(user_id) ==
    /\ IF StoreFails
       THEN /\ last' = Call("clear_favorites", user_id, 0, FALSE)
            /\ UNCHANGED favorites
       ELSE /\ favorites' = Delete(favorites, {r \in DOMAIN favorites : r.user_id = user_id})
            /\ last' = Call("clear_favorites", user_id, 0, TRUE)
    /\ UNCHANGED <<users, blacklist, viewed_profiles, connection, now, inputs, response, calls>>

remove_from_favorites(user_id, candidate_id) ==
    /\ IF StoreFails
       THEN /\ last' = Call("remove_from_favorites", user_id, candidate_id, FALSE)
            /\ UNCHANGED favorites
       ELSE /\ favorites' =
                   Delete(favorites, {r \in DOMAIN favorites :
                                         r.user_id = user_id /\ r.candidate_id = candidate_id})
            /\ last' = Call("remove_from_favorites", user_id, candidate_id, TRUE)
    /\ UNCHANGED <<users, blacklist, viewed_profiles, connection, now, inputs, response, calls>>

\* Faulty variant: a row at the cutoff is deleted too
IsOld_AtCutoff(row, days) == row.viewed_at <= now - days

\* DELETE FROM viewed_profiles WHERE viewed_at < NOW() - INTERVAL 'days days'
IsOld(row, days) == row.viewed_at < now - days

cleanup_old_viewed(days) ==
    /\ IF StoreFails
       THEN /\ last' = Call("cleanup_old_viewed", 0, 0, 0)
            /\ UNCHANGED viewed_profiles
       ELSE /\ viewed_profiles' = Where(viewed_profiles, {r \in DOMAIN viewed_profiles : ~IsOld(r, days)})
            /\ last' = Call("cleanup_old_viewed", 0, 0,
                            RowCount(Where(viewed_profiles, {r \in DOMAIN viewed_profiles : IsOld(r, days)})))
    /\ UNCHANGED <<users, favorites, blacklist, connection, now, inputs, response, calls>>

\* Faulty variant: the foreign keys have no ON DELETE CASCADE
Cascade_None(table, user_id) == table

\* REFERENCES users(user_id) ON DELETE CASCADE
Cascade(table, user_id) ==
    Delete(table, {r \in DOMAIN table : r.user_id = user_id})

\* The removal of a user, which no method of Database does: a DELETE FROM
\* users by the administrator of the store, on a connection of their own.
delete_user(user_id) ==
    /\ UserExists(user_id)
    /\ users' = Delete(users, {r \in DOMAIN users : r.user_id = user_id})
    /\ favorites' = Cascade(favorites, user_id)
    /\ blacklist' = Cascade(blacklist, user_id)
    /\ viewed_profiles' = Cascade(viewed_profiles, user_id)
    /\ last' = Call("delete_user", user_id, 0, None)
    /\ UNCHANGED <<connection, now, inputs, response, calls>>

close ==
    /\ connection = "open"
    /\ connection' = "closed"
    /\ last' = Call("close", 0, 0, None)
    /\ UNCHANGED <<tables, now, inputs, response, calls>>

connect ==
    /\ connection = "closed"
    /\ connection' = "open"
    /\ last' = Call("connect", 0, 0, None)
    /\ UNCHANGED <<tables, now, inputs, response, calls>>

\* A day passes on the store's clock.
Tick ==
    /\ now < MaxTime
    /\ now' = now + 1
    /\ last' = Call("tick", 0, 0, None)
    /\ UNCHANGED <<tables, connection, inputs, response, calls>>

(***************************************************************************)
(* Processes with a Database each, on connections of their own to the one  *)
(* store.  A call is made, then its INSERT statement is executed, which    *)
(* the store does one statement at a time (autocommit; an INSERT that      *)
(* meets the key of an INSERT in progress waits for it), then it returns.  *)
(* A call records whether, when it was made, its user existed and its pair *)
(* was not yet in the table.                                               *)
(***************************************************************************)
Processes == {1, 2}

NoCall ==
    [pc |-> "idle", op |-> "", user_id |-> 0, candidate_id |-> 0, ret |-> None,
     existed |-> FALSE, fresh |-> FALSE]

invoke_add_to_favorites(p, user_id, candidate_id) ==
    /\ calls[p].pc = "idle"
    /\ calls' = [calls EXCEPT ![p] =
                    [pc |-> "called", op |-> "add_to_favorites", user_id |-> user_id,
                     candidate_id |-> candidate_id, ret |-> None,
                     existed |-> UserExists(user_id),
                     fresh |-> ~PairExists(favorites, user_id, candidate_id)]]
    /\ UNCHANGED <<store, inputs, response, last>>

invoke_add_to_viewed(p, user_id, candidate_id) ==
    /\ calls[p].pc = "idle"
    /\ calls' = [calls EXCEPT ![p] =
                    [pc |-> "called", op |-> "add_to_viewed", user_id |-> user_id,
                     candidate_id |-> candidate_id, ret |-> None,
                     existed |-> UserExists(user_id),
                     fresh |-> ~PairExists(viewed_profiles, user_id, candidate_id)]]
    /\ UNCHANGED <<store, inputs, response, last>>

\* Faulty variant: True is returned also from the except clauses
Returns_True(fails) == TRUE

\* return True after the statement, return False in the except clauses
Returns(fails) == ~fails

\* cursor.execute(INSERT INTO favorites ...) of the call of p, and its return
execute_add_to_favorites(p) ==
    /\ calls[p].pc = "called"
    /\ calls[p].op = "add_to_favorites"
    /\ LET user_id == calls[p].user_id
           candidate_id == calls[p].candidate_id
           fails == FavoritesInsertFails(user_id, candidate_id)
       IN  /\ favorites' = IF fails THEN favorites
                           ELSE Insert(favorites,
                                       [user_id |-> user_id,
                                        candidate_id |-> candidate_id,
                                        first_name |-> "", last_name |-> ""])
           /\ last' = Call("add_to_favorites", user_id, candidate_id, Returns(fails))
           /\ calls' = [calls EXCEPT ![p].pc = "returned", ![p].ret = Returns(fails)]
    /\ UNCHANGED <<users, blacklist, viewed_profiles, connection, now, inputs, response>>

\* cursor.execute(INSERT INTO viewed_profiles ... ON CONFLICT DO NOTHING) of
\* the call of p, and its return
execute_add_to_viewed(p) ==
    /\ calls[p].pc = "called"
    /\ calls[p].op = "add_to_viewed"
    /\ LET user_id == calls[p].user_id
           candidate_id == calls[p].candidate_id
           fails == IgnoringInsertFails(viewed_profiles, user_id, candidate_id)
       IN  /\ viewed_profiles' =
                  IF fails THEN viewed_profiles
                  ELSE InsertOrIgnore(viewed_profiles, user_id, candidate_id,
                                      [user_id |-> user_id, candidate_id |-> candidate_id,
                                       viewed_at |-> now])
           /\ last' = Call("add_to_viewed", user_id, candidate_id, Returns(fails))
           /\ calls' = [calls EXCEPT ![p].pc = "returned", ![p].ret = Returns(fails)]
    /\ UNCHANGED <<users, favorites, blacklist, connection, now, inputs, response>>

(***************************************************************************)
(* Python values.  A str is a sequence of characters; a Cyrillic letter is *)
(* written by its Latin name, upper or lower case ("M" is the capital of   *)
(* "m", "YO" and "yo" are the letter with the diaeresis, "ye" the plain    *)
(* one).  A dict is a function whose domain is its set of keys.            *)
(***************************************************************************)
Get(dict, key, default) == IF key \in DOMAIN dict THEN dict[key] ELSE default

Put(dict, key, value) == (key :> value) @@ dict

EmptyDict == [key \in {} |-> 0]

\* bool(x) of an optional int
Truthy(x) == x # None /\ x # 0

LowerChar(ch) ==
    CASE ch = "M" -> "m"
      [] ch = "O" -> "o"
      [] ch = "P" -> "p"
      [] ch = "YO" -> "yo"
      [] OTHER -> ch

\* str.lower
lower(s) == [i \in 1..Len(s) |-> LowerChar(s[i])]

IsSpace(ch) == ch = " "

RECURSIVE lstrip(_)
lstrip(s) == IF s # <<>> /\ IsSpace(Head(s)) THEN lstrip(Tail(s)) ELSE s

RECURSIVE rstrip(_)
rstrip(s) ==
    IF s # <<>> /\ IsSpace(s[Len(s)]) THEN rstrip(SubSeq(s, 1, Len(s) - 1)) ELSE s

\* str.strip
strip(s) == rstrip(lstrip(s))

\* str.replace, of one character by another
replace(s, old, new) == [i \in 1..Len(s) |-> IF s[i] = old THEN new ELSE s[i]]

\* sub in s
Contains(s, sub) ==
    \E i \in 1..(Len(s) - Len(sub) + 1) : SubSeq(s, i, i + Len(sub) - 1) = sub

\* str.split(sep)
RECURSIVE split(_, _)
split(s, sep) ==
    IF \A i \in 1..Len(s) : s[i] # sep
    THEN <<s>>
    ELSE LET i == CHOOSE k \in 1..Len(s) :
                      s[k] = sep /\ \A j \in 1..(k - 1) : s[j] # sep
         IN  <<SubSeq(s, 1, i - 1)>> \o split(SubSeq(s, i + 1, Len(s)), sep)

Digits == {"0", "1", "2", "3", "4", "5", "6", "7", "8", "9"}

DigitValue(ch) ==
    CASE ch = "0" -> 0 [] ch = "1" -> 1 [] ch = "2" -> 2 [] ch = "3" -> 3
      [] ch = "4" -> 4 [] ch = "5" -> 5 [] ch = "6" -> 6 [] ch = "7" -> 7
      [] ch = "8" -> 8 [] ch = "9" -> 9

RECURSIVE DecimalValue(_)
DecimalValue(ds) ==
    IF ds = <<>> THEN 0
    ELSE 10 * DecimalValue(SubSeq(ds, 1, Len(ds) - 1)) + DigitValue(ds[Len(ds)])

\* The digits of an int literal: surrounding whitespace and one sign dropped.
Unsigned(s) ==
    LET t == strip(s)
    IN  IF t # <<>> /\ t[1] \in {"+", "-"} THEN Tail(t) ELSE t

\* int(s) does not raise ValueError
IsIntLiteral(s) ==
    /\ Unsigned(s) # <<>>
    /\ \A i \in 1..Len(Unsigned(s)) : Unsigned(s)[i] \in Digits

\* int(s)
int(s) ==
    IF strip(s)[1] = "-" THEN 0 - DecimalValue(Unsigned(s)) ELSE DecimalValue(Unsigned(s))

(***************************************************************************)
(* config.py is not among the sources.  CITIES is the static table of city *)
(* names and identifiers: of its content only "moskva" -> 1 is known; the  *)
(* second key stands for any name spelt with the plain letter "ye".        *)
(***************************************************************************)
Moskva == <<"M", "o", "s", "k", "v", "a">>
moskva == <<"m", "o", "s", "k", "v", "a">>
Oryol == <<"O", "r", "yo", "l">>
oryel == <<"o", "r", "ye", "l">>
Parizh == <<"P", "a", "r", "i", "zh">>
camera == <<"c", "a", "m", "e", "r", "a">>

CITIES == (moskva :> 1) @@ (oryel :> 10)

(***************************************************************************)
(* VKService._calculate_age                                                *)
(***************************************************************************)
\* Faulty variant: the bounds of the range are excluded
InAgeRange_Strict(age) == 10 < age /\ age < 100

InAgeRange(age) == 10 <= age /\ age <= 100

_calculate_age(date) ==
    IF date = <<>> THEN None
    ELSE LET date_parts == split(date, ".")
         IN  IF Len(date_parts) < 3 THEN None
             ELSE IF ~IsIntLiteral(date_parts[3]) THEN None
             ELSE LET age == current_year - int(date_parts[3])
                  IN  IF InAgeRange(age) THEN age ELSE None

(***************************************************************************)
(* VKService._build_search_params: the class defines it twice, and the     *)
(* later definition is the one the class keeps.                            *)
(***************************************************************************)
\* Faulty variant: the search is for the requester's own sex
TargetSex_Same(params, user_sex) ==
    IF user_sex = 1 \/ user_sex = 2 THEN Put(params, "sex", user_sex) ELSE params

\* requester sex 1 (female) looks for 2 (male) and conversely
TargetSex(params, user_sex) ==
    IF user_sex = 1 THEN Put(params, "sex", 2)
    ELSE IF user_sex = 2 THEN Put(params, "sex", 1)
    ELSE params

AgeFrom(user_age, age_range) ==
    IF 18 >= user_age - age_range THEN 18 ELSE user_age - age_range

\* Faulty variant: the upper clamp is missing
AgeTo_Unclamped(user_age, age_range) == user_age + age_range

AgeTo(user_age, age_range) ==
    IF 80 <= user_age + age_range THEN 80 ELSE user_age + age_range

AgeBand(params, user_age) ==
    IF Truthy(user_age)
    THEN LET age_range == Get(SEARCH_CONFIG, "age_range", 5)
         IN  Put(Put(params, "age_from", AgeFrom(user_age, age_range)),
                 "age_to", AgeTo(user_age, age_range))
    ELSE Put(Put(params, "age_from", 18), "age_to", 35)

\* city = user_info.get('city', '').lower(); if city and city in CITIES
CityFilter(params, info) ==
    LET city == lower(Get(info, "city", <<>>))
    IN  IF city # <<>> /\ city \in DOMAIN CITIES
        THEN Put(params, "city", CITIES[city])
        ELSE params

_build_search_params(info) ==
    LET params == [count |-> Get(SEARCH_CONFIG, "count", 100),
                   fields |-> "bdate,city,photo_100,sex",
                   has_photo |-> 1,
                   sort |-> 0]
    IN  CityFilter(AgeBand(TargetSex(params, Get(info, "sex", 0)),
                           Get(info, "age", None)),
                   info)

\* The earlier definition, which the later one shadows.
NormalizedCity(info) == replace(strip(lower(Get(info, "city", <<>>))), "yo", "ye")

RawCity(info) == strip(lower(Get(info, "city", <<>>)))

ShadowedCityFilter(params, info) ==
    IF \E city_name \in DOMAIN CITIES :
           NormalizedCity(info) = city_name \/ RawCity(info) = city_name
    THEN LET city_name == CHOOSE name \in DOMAIN CITIES :
                              NormalizedCity(info) = name \/ RawCity(info) = name
         IN  Put(params, "city", CITIES[city_name])
    ELSE params

_build_search_params_shadowed(info) ==
    LET params == [count |-> Get(SEARCH_CONFIG, "count", 100),
                   fields |-> "bdate,city,photo_100,sex",
                   has_photo |-> 1,
                   sort |-> 0,
                   country |-> 1]
    IN  ShadowedCityFilter(AgeBand(TargetSex(params, Get(info, "sex", 0)),
                                   Get(info, "age", None)),
                           info)

build_search_params ==
    /\ last' = ServiceCall("_build_search_params", 0, _build_search_params(user_info))
    /\ UNCHANGED <<store, inputs, response, calls>>

calculate_age ==
    /\ last' = ServiceCall("_calculate_age", 0, _calculate_age(bdate))
    /\ UNCHANGED <<store, inputs, response, calls>>

(***************************************************************************)
(* Inputs.                                                                 *)
(***************************************************************************)
\* The profiles add_user is called with: two per user id, so that an update
\* of an existing row is distinguishable from the row it replaces.
UserInfos ==
    [id: UserIds, first_name: {"Test"}, last_name: {"User"}, age: {25, 30},
     city: {Moskva}, country: {"Rossiya"}, sex: {1}]

\* The requester of the search service: the profile of tests.py.
Requesters == {info \in UserInfos : info.id = 1 /\ info.age = 25}


\* The requester profiles the search service is given: a dict whose sex and
\* city keys may be missing, with the ages _calculate_age can produce.
SexInputs == {0, 1, 2}

AgeInputs == {None} \cup 10..100

CityInputs ==
    {<<>>, Moskva, moskva, <<" ">> \o Moskva \o <<" ">>, Oryol, oryel,
     <<"o", "r", "yo", "l">>, Parizh}

ParamInfos ==
    {IF has_sex
     THEN (IF has_city THEN Put(Put(base, "sex", sex), "city", city)
                       ELSE Put(base, "sex", sex))
     ELSE (IF has_city THEN Put(base, "city", city) ELSE base) :
        base \in [id : {1}, age : AgeInputs],
        has_sex \in BOOLEAN, sex \in SexInputs,
        has_city \in BOOLEAN, city \in CityInputs}

\* config.SEARCH_CONFIG: age_range is 1..20 (tests.py checks the range), or
\* missing, and then the code takes 5.
DefaultConfig == [count |-> 100, age_range |-> 5]

Configs == [count : {100}, age_range : 1..20] \cup {[count |-> 100]}

Years == {2025, 2026}

\* Birth dates: up to four parts joined by dots, and the word of tests.py.
DayParts == {<<>>, <<"1">>, <<"1", "5">>}

MonthParts == {<<"1">>, <<"x">>}

YearParts ==
    {<<>>, <<"1", "9", "9", "9">>, <<"2", "0", "1", "6">>, <<"2", "0", "1", "5">>,
     <<"2", "0", "1", "7">>, <<"1", "9", "2", "6">>, <<"1", "9", "2", "5">>,
     <<"1", "9", "2", "4">>, <<" ", "1", "9", "9", "9">>, <<"+", "1", "9", "9", "9">>,
     <<"-", "5">>, <<"1", "9", "x", "9">>, <<"x">>, <<"+">>}

TailParts == {<<>>, <<"7">>}

invalid_date == <<"i", "n", "v", "a", "l", "i", "d", "_", "d", "a", "t", "e">>

BirthDates ==
    {<<>>, invalid_date}
    \cup DayParts
    \cup {d \o <<".">> \o m : d \in DayParts, m \in MonthParts}
    \cup {d \o <<".">> \o m \o <<".">> \o y :
             d \in DayParts, m \in MonthParts, y \in YearParts}
    \cup {d \o <<".">> \o m \o <<".">> \o y \o <<".">> \o t :
             d \in DayParts, m \in MonthParts, y \in YearParts, t \in TailParts}

\* Raw items of a search answer: the deactivated and photo_100 keys may be
\* missing.  Candidate 1 comes in every form, candidate 2 as an active
\* profile with a photo.
MaxItems == 2

SearchIds == {1, 2}

photo == <<"p", "h", "o", "t", "o">>

camera_url == <<"x">> \o camera \o <<"_", "1">>

RawItem(id) ==
    [id |-> id, first_name |-> "Anna", last_name |-> "Ivanova",
     bdate |-> <<"1", "5", ".", "5", ".", "1", "9", "9", "5">>,
     city |-> [title |-> Moskva], sex |-> 1]

\* Profiles with a photo, and one without, one with the placeholder picture
\* and one deactivated.
RawItems ==
    {Put(RawItem(id), "photo_100", photo) : id \in SearchIds}
    \cup {RawItem(1),
          Put(RawItem(1), "photo_100", camera_url),
          Put(Put(RawItem(1), "photo_100", photo), "deactivated", "deleted")}

SearchLimit == 50

\* one more profile than a search returns
LongList ==
    [i \in 1..(SearchLimit + 1) |->
        Put(RawItem(IF i = 1 THEN 2 ELSE 1), "photo_100", photo)]

ItemLists == UNION {[1..n -> RawItems] : n \in 0..MaxItems} \cup {LongList}

NoAnswer == [raises |-> FALSE, body |-> EmptyDict]

\* what a call of the VK API raises: vk_api.ApiError with its code (30 is
\* a private profile), or another exception
Errors ==
    {[type |-> "ApiError", code |-> 30], [type |-> "ApiError", code |-> 5],
     [type |-> "Exception", code |-> 0]}

Failure(error) == [raises |-> TRUE, error |-> error, body |-> EmptyDict]

\* Faulty variant: only the private profile is handled
Caught_PrivateOnly(error) == error.type = "ApiError" /\ error.code = 30

\* except vk_api.ApiError / except Exception
Caught(error) == error.type \in {"ApiError", "Exception"}

\* what the caller gets of a call that raises, which is no list of dicts
Propagated == <<[raised |-> TRUE]>>

Answers ==
    {Failure(error) : error \in Errors} \cup {NoAnswer}
    \cup {[raises |-> FALSE, body |-> [items |-> items]] : items \in ItemLists}

(***************************************************************************)
(* VKService.search_people (the later definition, which the class keeps).  *)
(* The external search capability answers with an ApiError, with a body    *)
(* without items, or with a list of raw items.                             *)
(***************************************************************************)
\* Faulty variant: deactivated profiles are not skipped
NotDeactivated_Any(user) == TRUE

\* user.get('deactivated') is falsy
NotDeactivated(user) == Get(user, "deactivated", "") = ""

\* user.get('photo_100') is truthy and does not contain 'camera'
HasPhoto(user) ==
    /\ Get(user, "photo_100", <<>>) # <<>>
    /\ ~Contains(Get(user, "photo_100", <<>>), camera)

Keep(user) == NotDeactivated(user) /\ HasPhoto(user)

Candidate(user) ==
    [id |-> user.id,
     first_name |-> Get(user, "first_name", ""),
     last_name |-> Get(user, "last_name", ""),
     age |-> _calculate_age(Get(user, "bdate", <<>>)),
     city |-> IF "city" \in DOMAIN user THEN Get(user.city, "title", <<>>) ELSE <<>>,
     sex |-> Get(user, "sex", 0)]

\* the loop over response['items']
RECURSIVE Candidates(_)
Candidates(items) ==
    IF items = <<>> THEN <<>>
    ELSE IF Keep(Head(items))
         THEN <<Candidate(Head(items))>> \o Candidates(Tail(items))
         ELSE Candidates(Tail(items))

\* seq without its i-th element
Without(seq, i) == SubSeq(seq, 1, i - 1) \o SubSeq(seq, i + 1, Len(seq))

\* random.shuffle: any order of the same elements (any of them first, then
\* any order of the others)
RECURSIVE Shuffles(_)
Shuffles(seq) ==
    IF seq = <<>> THEN {<<>>}
    ELSE UNION {{<<seq[i]>> \o rest : rest \in Shuffles(Without(seq, i))} :
                   i \in {k \in 1..Len(seq) : \A j \in 1..(k - 1) : seq[j] # seq[k]}}

\* Faulty variant: the list is not cut
Truncate_None(seq) == seq

\* candidates[:50]
Truncate(seq) == SubSeq(seq, 1, IF Len(seq) < SearchLimit THEN Len(seq) ELSE SearchLimit)

\* what search_people may return on this answer
SearchResults(info, answer) ==
    IF answer.raises
    THEN {IF Caught(answer.error) THEN <<>> ELSE Propagated}
    ELSE IF "items" \notin DOMAIN answer.body
    THEN {<<>>}
    ELSE {Truncate(shuffled) : shuffled \in Shuffles(Candidates(answer.body.items))}

search_people ==
    /\ \E params \in {_build_search_params(user_info)} :
       \E ret \in SearchResults(user_info, response) :
          last' = ServiceCall("search_people", user_info.id, ret)
    /\ UNCHANGED <<store, inputs, response, calls>>

(***************************************************************************)
(* VKService.get_popular_photos (the later definition, which the class     *)
(* keeps).  photos.get answers with an ApiError, with a body without       *)
(* items, or with the list of the photos of the profile album.             *)
(***************************************************************************)
MaxPhotos == 4

PhotoIds == {1, 2}

\* a photo with its counts of likes and comments
RawPhoto(id, likes, comments) ==
    [id |-> id, likes |-> [count |-> likes], comments |-> [count |-> comments]]

\* Photos of equal score with different likes, and one without counts.
RawPhotos ==
    {RawPhoto(id, 0, 0) : id \in PhotoIds}
    \cup {RawPhoto(id, 1, 1) : id \in PhotoIds}
    \cup {RawPhoto(id, 2, 0) : id \in PhotoIds}
    \cup {[id |-> 3]}

PhotoLists == UNION {[1..n -> RawPhotos] : n \in 0..MaxPhotos}

PhotoAnswers ==
    {Failure(error) : error \in Errors} \cup {NoAnswer}
    \cup {[raises |-> FALSE, body |-> [items |-> items]] : items \in PhotoLists}

PhotoConfigs ==
    {DefaultConfig,
     Put(DefaultConfig, "min_photo_likes", 2),
     Put(DefaultConfig, "max_photos", 2),
     Put(Put(DefaultConfig, "min_photo_likes", 2), "max_photos", 2)}

\* x.get('likes', {}).get('count', 0)
Likes(x) == Get(Get(x, "likes", EmptyDict), "count", 0)

\* the sort key: likes + comments
Score(x) == Likes(x) + Get(Get(x, "comments", EmptyDict), "count", 0)

\* Faulty variant: a photo goes behind the later photos of its score
GoesBefore_Unstable(x, y) == Score(x) > Score(y)

\* whether x, which came before y in the list, stays before y in the
\* descending stable sort
GoesBefore(x, y) == Score(x) >= Score(y)

\* x put in front of the first photo of a sorted list it goes before
RECURSIVE SortedInsert(_, _)
SortedInsert(x, sorted) ==
    IF sorted = <<>> THEN <<x>>
    ELSE IF GoesBefore(x, Head(sorted)) THEN <<x>> \o sorted
         ELSE <<Head(sorted)>> \o SortedInsert(x, Tail(sorted))

\* photos.sort(key = score, reverse = True), which is stable
RECURSIVE Sorted(_)
Sorted(photos) ==
    IF photos = <<>> THEN <<>>
    ELSE SortedInsert(Head(photos), Sorted(Tail(photos)))

min_likes == Get(SEARCH_CONFIG, "min_photo_likes", 1)

max_photos == Get(SEARCH_CONFIG, "max_photos", 3)

\* [photo for photo in photos if likes >= min_likes]
Filtered(photos) == SelectSeq(photos, LAMBDA x : Likes(x) >= min_likes)

\* Faulty variant: the filtered list is kept however short it is
Popular_NoFallback(photos) == Filtered(photos)

\* popular_photos, which is all the photos when fewer than 3 have the likes
Popular(photos) ==
    IF Len(Filtered(photos)) < 3 /\ photos # <<>> THEN photos
    ELSE Filtered(photos)

\* seq[:n] for n >= 0
Slice(seq, n) == SubSeq(seq, 1, IF Len(seq) < n THEN Len(seq) ELSE n)

PopularPhotos(answer) ==
    IF answer.raises
    THEN (IF Caught(answer.error) THEN <<>> ELSE Propagated)
    ELSE IF "items" \notin DOMAIN answer.body
    THEN <<>>
    ELSE Slice(Popular(Sorted(answer.body.items)), max_photos)

get_popular_photos ==
    /\ last' = ServiceCall("get_popular_photos", 1, PopularPhotos(photos_response))
    /\ UNCHANGED <<store, inputs, response, calls>>

(***************************************************************************)
(* The store after Database.__init__: connected, tables created.           *)
(***************************************************************************)
StoreInit ==
    /\ calls = [p \in Processes |-> NoCall]
    /\ users = EmptyBag
    /\ favorites = EmptyBag
    /\ blacklist = EmptyBag
    /\ viewed_profiles = EmptyBag
    /\ connection = "open"
    /\ now = 0

ServiceInit ==
    /\ response = NoAnswer
    /\ last = [op |-> "__init__", user_id |-> 0, candidate_id |-> 0, ret |-> None,
               before |-> <<>>]

Init ==
    /\ StoreInit
    /\ ServiceInit
    /\ SEARCH_CONFIG = DefaultConfig
    /\ current_year = 2026
    /\ user_info \in Requesters
    /\ bdate = <<>>
    /\ photos_response = NoAnswer

Next ==
    \/ \E info \in UserInfos : add_user(info)
    \/ \E u \in UserIds, c \in CandidateIds, n \in Names :
           add_to_favorites(u, c, n[1], n[2])
    \/ \E u \in UserIds, c \in CandidateIds : add_to_blacklist(u, c)
    \/ \E u \in UserIds, c \in CandidateIds : add_to_viewed(u, c)
    \/ \E u \in UserIds : clear_favorites(u)
    \/ \E u \in UserIds, c \in CandidateIds : remove_from_favorites(u, c)
    \/ \E d \in Days : cleanup_old_viewed(d)
    \/ \E u \in UserIds : delete_user(u)
    \/ close
    \/ connect
    \/ Tick

Spec == Init /\ [][Next]_vars

(***************************************************************************)
(* The search parameters of every requester profile under every            *)
(* configuration.                                                          *)
(***************************************************************************)
InitParams ==
    /\ StoreInit
    /\ ServiceInit
    /\ SEARCH_CONFIG \in Configs
    /\ current_year = 2026
    /\ user_info \in ParamInfos
    /\ bdate = <<>>
    /\ photos_response = NoAnswer

NextParams == build_search_params

SpecParams == InitParams /\ [][NextParams]_vars

(***************************************************************************)
(* The age of every birth date in every current year.                      *)
(***************************************************************************)
InitAge ==
    /\ StoreInit
    /\ ServiceInit
    /\ SEARCH_CONFIG = DefaultConfig
    /\ current_year \in Years
    /\ user_info \in Requesters
    /\ bdate \in BirthDates
    /\ photos_response = NoAnswer

NextAge == calculate_age

SpecAge == InitAge /\ [][NextAge]_vars

(***************************************************************************)
(* The popular photos of every photo list under every configuration.       *)
(***************************************************************************)
InitPhotos ==
    /\ StoreInit
    /\ ServiceInit
    /\ SEARCH_CONFIG \in PhotoConfigs
    /\ current_year = 2026
    /\ user_info \in Requesters
    /\ bdate = <<>>
    /\ photos_response \in PhotoAnswers

NextPhotos == get_popular_photos

SpecPhotos == InitPhotos /\ [][NextPhotos]_vars

(***************************************************************************)
(* Searches of one requester between that requester's store operations.    *)
(***************************************************************************)
InitSearch ==
    /\ StoreInit
    /\ last = [op |-> "__init__", user_id |-> 0, candidate_id |-> 0, ret |-> None,
               before |-> <<>>]
    /\ response \in Answers
    /\ SEARCH_CONFIG = DefaultConfig
    /\ current_year = 2026
    /\ user_info \in Requesters
    /\ bdate = <<>>
    /\ photos_response = NoAnswer

NextSearch ==
    \/ add_user(user_info)
    \/ \E c \in CandidateIds : add_to_blacklist(user_info.id, c)
    \/ \E c \in CandidateIds : add_to_viewed(user_info.id, c)
    \/ search_people

SpecSearch == InitSearch /\ [][NextSearch]_vars

(***************************************************************************)
(* Searches and photo fetches of which at least one fails.                 *)
(***************************************************************************)
InitFailures ==
    /\ StoreInit
    /\ last = [op |-> "__init__", user_id |-> 0, candidate_id |-> 0, ret |-> None,
               before |-> <<>>]
    /\ response \in Answers
    /\ photos_response \in PhotoAnswers
    /\ response.raises \/ photos_response.raises
    /\ SEARCH_CONFIG = DefaultConfig
    /\ current_year = 2026
    /\ user_info \in Requesters
    /\ bdate = <<>>

NextFailures ==
    \/ search_people
    \/ get_popular_photos

SpecFailures == InitFailures /\ [][NextFailures]_vars

(***************************************************************************)
(* One call of each process, made to the store while users are added.      *)
(***************************************************************************)
NextConcurrent ==
    \/ \E info \in UserInfos : add_user(info)
    \/ \E p \in Processes, u \in UserIds, c \in CandidateIds :
           invoke_add_to_favorites(p, u, c)
    \/ \E p \in Processes, u \in UserIds, c \in CandidateIds :
           invoke_add_to_viewed(p, u, c)
    \/ \E p \in Processes : execute_add_to_favorites(p)
    \/ \E p \in Processes : execute_add_to_viewed(p)

SpecConcurrent == Init /\ [][NextConcurrent]_vars

(***************************************************************************)
(* Properties of the store.                                                *)
(***************************************************************************)
\* the number of entries of a get_favorites result for this candidate
EntriesFor(entries, candidate_id) ==
    BagCardinality(Where(entries, {e \in DOMAIN entries : e.candidate_id = candidate_id}))

\* the number of rows of a table for this pair
PairCount(table, user_id, candidate_id) ==
    BagCardinality(Where(table, {r \in DOMAIN table : r.user_id = user_id /\ r.candidate_id = candidate_id}))

IsCall(call, op, user_id, candidate_id) ==
    call.op = op /\ call.user_id = user_id /\ call.candidate_id = candidate_id

\* C1: for an existing user u and a candidate c not yet favorited,
\* add_to_favorites(u, c) returns true; called again right after a call that
\* returned true it returns false; and after either call get_favorites(u)
\* holds exactly one entry whose candidate_id is c.
C1_FavoriteTwice ==
    [][\A u \in UserIds, c \in CandidateIds :
          IsCall(last', "add_to_favorites", u, c) /\ connection = "open" =>
             /\ UserExists(u) /\ ~PairExists(favorites, u, c) =>
                    /\ last'.ret = TRUE
                    /\ EntriesFor(get_favorites(u)', c) = 1
             /\ last'.before = <<TRUE>> =>
                    /\ last'.ret = FALSE
                    /\ EntriesFor(get_favorites(u)', c) = 1]_vars

\* the second of two add_to_favorites calls in a row has returned false
C1_Witness ==
    /\ IsCall(last, "add_to_favorites", 1, 1)
    /\ last.before = <<TRUE>>
    /\ last.ret = FALSE
    /\ connection = "open"
    /\ EntriesFor(get_favorites(1), 1) = 1

\* C2: for an existing user u, add_to_blacklist(u, c) returns true on the
\* first call and on the call right after it, and get_blacklist(u) then
\* holds c exactly once.
C2_BlacklistTwice ==
    [][\A u \in UserIds, c \in CandidateIds :
          IsCall(last', "add_to_blacklist", u, c) /\ connection = "open"
          /\ UserExists(u) =>
             /\ last'.ret = TRUE
             /\ CopiesIn(c, get_blacklist(u)') = 1]_vars

\* the second of two add_to_blacklist calls in a row has returned true
C2_Witness ==
    /\ IsCall(last, "add_to_blacklist", 1, 1)
    /\ last.before = <<TRUE>>
    /\ last.ret = TRUE
    /\ CopiesIn(1, get_blacklist(1)) = 1

\* C3: in every state the store operations reach, each of the tables
\* favorites, blacklist and viewed_profiles holds at most one row for a pair
\* (user_id, candidate_id).
C3_UniquePairs ==
    /\ \A r \in DOMAIN favorites : PairCount(favorites, r.user_id, r.candidate_id) = 1
    /\ \A r \in DOMAIN blacklist : PairCount(blacklist, r.user_id, r.candidate_id) = 1
    /\ \A r \in DOMAIN viewed_profiles :
           PairCount(viewed_profiles, r.user_id, r.candidate_id) = 1

\* every table holds the pair and an insert of it has just been repeated
C3_Witness ==
    /\ PairExists(favorites, 1, 1)
    /\ PairExists(blacklist, 1, 1)
    /\ PairExists(viewed_profiles, 1, 1)
    /\ IsCall(last, "add_to_viewed", 1, 1)
    /\ last.before = <<TRUE>>

\* the number of rows of a table for this user
Stored(table, user_id) ==
    LET rows == {r \in DOMAIN table : r.user_id = user_id}
        RECURSIVE Sum(_)
        Sum(rest) == IF rest = {} THEN 0
                     ELSE LET r == CHOOSE x \in rest : TRUE
                          IN  table[r] + Sum(rest \ {r})
    IN  Sum(rows)

\* C15: with the store answering, get_user_stats(u) returns the numbers of
\* favorite, blacklist and viewed records stored for u; in every state each
\* count is the length of get_favorites(u), get_blacklist(u) and
\* get_viewed_profiles(u).
C15_Stats ==
    \A u \in UserIds :
        /\ connection = "open" =>
               /\ get_user_stats(u).favorites_count = Stored(favorites, u)
               /\ get_user_stats(u).blacklist_count = Stored(blacklist, u)
               /\ get_user_stats(u).viewed_count = Stored(viewed_profiles, u)
        /\ get_user_stats(u).favorites_count = BagCardinality(get_favorites(u))
        /\ get_user_stats(u).blacklist_count = BagCardinality(get_blacklist(u))
        /\ get_user_stats(u).viewed_count = BagCardinality(get_viewed_profiles(u))

\* one favorite, one blacklist entry and no viewed record of user 1, while
\* user 2 has records too
C15_Witness ==
    /\ connection = "open"
    /\ get_user_stats(1) = [favorites_count |-> 1, blacklist_count |-> 1,
                            viewed_count |-> 0]
    /\ Stored(viewed_profiles, 2) = 1
    /\ Stored(favorites, 2) = 1

WriteOps ==
    {"add_user", "add_to_favorites", "add_to_blacklist", "add_to_viewed",
     "remove_from_favorites", "clear_favorites"}

\* C16: on a closed connection every write operation returns false and
\* leaves the tables unchanged, cleanup_old_viewed returns 0 and leaves them
\* unchanged, the get_ operations return nothing, get_user_stats returns
\* three zeros and is_in_blacklist and is_in_favorites return false.
C16_StoreFailure ==
    [][connection = "closed" =>
          /\ last'.op \in WriteOps => last'.ret = FALSE /\ UNCHANGED tables
          /\ last'.op = "cleanup_old_viewed" => last'.ret = 0 /\ UNCHANGED tables
          /\ \A u \in UserIds :
                /\ get_favorites(u) = EmptyBag
                /\ get_blacklist(u) = EmptyBag
                /\ get_viewed_profiles(u) = EmptyBag
                /\ get_user_stats(u) = [favorites_count |-> 0, blacklist_count |-> 0,
                                        viewed_count |-> 0]
                /\ \A c \in CandidateIds :
                      ~is_in_blacklist(u, c) /\ ~is_in_favorites(u, c)]_vars

\* a favorite that the open store would take was refused by the closed one,
\* which holds a blacklist entry it does not show
C16_Witness ==
    /\ connection = "closed"
    /\ IsCall(last, "add_to_favorites", 1, 1)
    /\ last.ret = FALSE
    /\ UserExists(1)
    /\ ~PairExists(favorites, 1, 1)
    /\ PairExists(blacklist, 1, 1)

\* C17: on an open connection cleanup_old_viewed(d) deletes the viewed
\* records older than now - d days and no other, leaves users, favorites and
\* blacklist unchanged, and returns the number of records it deleted.
C17_Cleanup ==
    [][\A d \in Days :
          cleanup_old_viewed(d) /\ connection = "open" =>
             /\ \A r \in DOMAIN viewed_profiles :
                    IF r.viewed_at < now - d
                    THEN r \notin DOMAIN viewed_profiles'
                    ELSE /\ r \in DOMAIN viewed_profiles'
                         /\ viewed_profiles'[r] = viewed_profiles[r]
             /\ DOMAIN viewed_profiles' \subseteq DOMAIN viewed_profiles
             /\ UNCHANGED <<users, favorites, blacklist>>
             /\ last'.ret = BagCardinality(viewed_profiles)
                                - BagCardinality(viewed_profiles')]_vars

\* one record was deleted and one, viewed at the cutoff, was kept
C17_Witness ==
    /\ last.op = "cleanup_old_viewed"
    /\ last.ret = 1
    /\ connection = "open"
    /\ \E r \in DOMAIN viewed_profiles : r.viewed_at = now

\* C18: on an open connection remove_from_favorites(u, c) and
\* clear_favorites(u) return true whether or not a record matched; after
\* remove_from_favorites there is no favorite of (u, c) and every other
\* favorite is as before; after clear_favorites there is no favorite of u
\* and the favorites of the other users are as before.
C18_Removal ==
    [][\A u \in UserIds :
          /\ \A c \in CandidateIds :
                IsCall(last', "remove_from_favorites", u, c) /\ connection = "open" =>
                   /\ last'.ret = TRUE
                   /\ ~PairExists(favorites', u, c)
                   /\ \A r \in DOMAIN favorites :
                          ~(r.user_id = u /\ r.candidate_id = c) =>
                             r \in DOMAIN favorites' /\ favorites'[r] = favorites[r]
                   /\ DOMAIN favorites' \subseteq DOMAIN favorites
          /\ IsCall(last', "clear_favorites", u, 0) /\ connection = "open" =>
                   /\ last'.ret = TRUE
                   /\ Stored(favorites', u) = 0
                   /\ \A r \in DOMAIN favorites :
                          r.user_id # u =>
                             r \in DOMAIN favorites' /\ favorites'[r] = favorites[r]
                   /\ DOMAIN favorites' \subseteq DOMAIN favorites]_vars

\* a removal that matched nothing returned true after one that matched had,
\* and the other user's favorite is still there
C18_Witness ==
    /\ IsCall(last, "remove_from_favorites", 1, 1)
    /\ last.before = <<TRUE>>
    /\ last.ret = TRUE
    /\ connection = "open"
    /\ Stored(favorites, 1) = 0
    /\ Stored(favorites, 2) = 1

\* the rows of users that hold this profile
ProfileRows(table, info) ==
    {r \in DOMAIN table :
        /\ r.user_id = info.id
        /\ r.first_name = info.first_name /\ r.last_name = info.last_name
        /\ r.age = info.age /\ r.city = info.city
        /\ r.country = info.country /\ r.sex = info.sex}

\* C19: there is at most one user row per id; on an open connection
\* add_user(profile) returns true and leaves exactly one row of that id,
\* holding the profile, and the rows of the other ids as they were; when
\* the row already held the profile the table is unchanged.
C19_Upsert ==
    [][/\ \A u \in UserIds : Stored(users', u) <= 1
       /\ \A info \in UserInfos :
              add_user(info) /\ connection = "open" =>
                 /\ last'.ret = TRUE
                 /\ Stored(users', info.id) = 1
                 /\ ProfileRows(users', info) # {}
                 /\ \A r \in DOMAIN users :
                        r.user_id # info.id =>
                           r \in DOMAIN users' /\ users'[r] = users[r]
                 /\ \A r \in DOMAIN users' : r.user_id # info.id => r \in DOMAIN users
                 /\ ProfileRows(users, info) # {} => users' = users]_vars

\* add_user was called twice in a row for user 1, whose row holds the age
\* of the later call
C19_Witness ==
    /\ IsCall(last, "add_user", 1, 0)
    /\ last.before = <<TRUE>>
    /\ last.ret = TRUE
    /\ \E r \in DOMAIN users : r.user_id = 1 /\ r.age = 30
    /\ Stored(users, 1) = 1

InteractionTables == <<favorites, blacklist, viewed_profiles>>

\* no table has a row of a user that is not in users
Referenced(tbls, usrs) ==
    \A t \in 1..Len(tbls) :
       \A r \in DOMAIN tbls[t] : \E x \in DOMAIN usrs : x.user_id = r.user_id

\* C20: every favorite, blacklist and viewed record is of an existing user;
\* an insert for a user id without a user row creates no record, and the
\* removal of a user removes the user's favorite, blacklist and viewed
\* records in the same step.
C20_Referential ==
    [][/\ Referenced(InteractionTables', users')
       /\ \A u \in UserIds :
              /\ ~UserExists(u) /\ last'.user_id = u
                     /\ last'.op \in {"add_to_favorites", "add_to_blacklist",
                                       "add_to_viewed"} =>
                        InteractionTables' = InteractionTables
              /\ IsCall(last', "delete_user", u, 0) =>
                     /\ ~UserExists(u)'
                     /\ Stored(favorites', u) = 0
                     /\ Stored(blacklist', u) = 0
                     /\ Stored(viewed_profiles', u) = 0]_vars

\* user 1 was removed and no record of user 1 is left
\* beside the records of user 2
C20_Witness ==
    /\ IsCall(last, "delete_user", 1, 0)
    /\ ~UserExists(1)
    /\ Stored(favorites, 2) = 1
    /\ Stored(blacklist, 2) = 1
    /\ Stored(viewed_profiles, 2) = 1

\* C23: for an existing user u, on an open connection, every call of
\* add_to_viewed(u, c) returns true, whether or not the pair was recorded,
\* and get_viewed_profiles(u) then holds c exactly once.
C23_ViewedIdempotent ==
    [][\A u \in UserIds, c \in CandidateIds :
          IsCall(last', "add_to_viewed", u, c) /\ connection = "open" /\ UserExists(u) =>
             /\ last'.ret = TRUE
             /\ CopiesIn(c, get_viewed_profiles(u)') = 1]_vars

\* add_to_viewed returned true twice in a row for user 1, the candidate
\* being viewed by user 2 as well
C23_Witness ==
    /\ IsCall(last, "add_to_viewed", 1, 1)
    /\ last.before = <<TRUE>>
    /\ last.ret = TRUE
    /\ connection = "open"
    /\ PairExists(viewed_profiles, 2, 1)
    /\ CopiesIn(1, get_viewed_profiles(1)) = 1

\* C24: add_to_favorites(u, c) returns true exactly when the connection is
\* open, u exists and (u, c) is not yet a favorite, and it has then inserted
\* one record; when it returns false favorites is unchanged.  It returns
\* false for a missing user, whose pair is in no favorite.
C24_FavoriteInserted ==
    [][\A u \in UserIds, c \in CandidateIds :
          IsCall(last', "add_to_favorites", u, c) =>
             /\ last'.ret \in BOOLEAN
             /\ last'.ret = TRUE <=>
                    /\ connection = "open"
                    /\ UserExists(u)
                    /\ ~PairExists(favorites, u, c)
             /\ last'.ret = TRUE =>
                    /\ PairCount(favorites', u, c) = 1
                    /\ BagCardinality(favorites') = BagCardinality(favorites) + 1
             /\ last'.ret = FALSE => favorites' = favorites
             /\ ~UserExists(u) => last'.ret = FALSE /\ ~PairExists(favorites', u, c)]_vars

\* false was returned for a user that does not exist, on an open connection
C24_Witness ==
    /\ IsCall(last, "add_to_favorites", 1, 1)
    /\ last.ret = FALSE
    /\ connection = "open"
    /\ ~UserExists(1)
    /\ ~PairExists(favorites, 1, 1)

\* the rows of a table that are not of this user
OfOthers(table, user_id) ==
    Where(table, {r \in DOMAIN table : r.user_id # user_id})

\* C25: add_to_favorites, remove_from_favorites and clear_favorites change
\* only the favorites of their user, add_to_blacklist only the blacklist of
\* its user, add_to_viewed only the viewed records of its user, and none of
\* them changes users; so a blacklisted pair stays a favorite.
C25_Independent ==
    [][\A u \in UserIds :
          /\ last'.user_id = u
                /\ last'.op \in {"add_to_favorites", "remove_from_favorites",
                                  "clear_favorites"} =>
                   /\ UNCHANGED <<users, blacklist, viewed_profiles>>
                   /\ OfOthers(favorites', u) = OfOthers(favorites, u)
          /\ last'.user_id = u /\ last'.op = "add_to_blacklist" =>
                   /\ UNCHANGED <<users, favorites, viewed_profiles>>
                   /\ OfOthers(blacklist', u) = OfOthers(blacklist, u)
          /\ last'.user_id = u /\ last'.op = "add_to_viewed" =>
                   /\ UNCHANGED <<users, favorites, blacklist>>
                   /\ OfOthers(viewed_profiles', u) = OfOthers(viewed_profiles, u)]_vars

\* a favorite of user 1 has just been blacklisted and is still a favorite
C25_Witness ==
    /\ IsCall(last, "add_to_blacklist", 1, 1)
    /\ last.ret = TRUE
    /\ last.before = <<>>
    /\ PairExists(favorites, 1, 1)
    /\ PairExists(blacklist, 1, 1)
    /\ PairExists(viewed_profiles, 2, 1)

\* two calls of one operation for one pair, both made when the user existed
\* and the pair was not yet in the table, have both returned
BothReturned(p, q, op) ==
    /\ p # q
    /\ calls[p].pc = "returned" /\ calls[q].pc = "returned"
    /\ calls[p].op = op /\ calls[q].op = op
    /\ calls[p].user_id = calls[q].user_id
    /\ calls[p].candidate_id = calls[q].candidate_id
    /\ calls[p].existed /\ calls[q].existed
    /\ calls[p].fresh /\ calls[q].fresh

\* C21: of two concurrent add_to_favorites calls of two processes for one
\* pair that was not yet a favorite, one returns true and the other false,
\* and there is one favorite record of the pair; two concurrent
\* add_to_viewed calls for one pair leave one viewed record of it.
C21_Concurrent ==
    \A p, q \in Processes :
        /\ BothReturned(p, q, "add_to_favorites") =>
               /\ {calls[p].ret, calls[q].ret} = {TRUE, FALSE}
               /\ PairCount(favorites, calls[p].user_id, calls[p].candidate_id) = 1
        /\ BothReturned(p, q, "add_to_viewed") =>
               PairCount(viewed_profiles, calls[p].user_id, calls[p].candidate_id) = 1

\* the call of process 2 won and the call of process 1 met the duplicate
C21_Witness ==
    /\ BothReturned(1, 2, "add_to_favorites")
    /\ calls[1].ret = FALSE
    /\ calls[2].ret = TRUE
    /\ PairCount(favorites, 1, 1) = 1


(***************************************************************************)
\* the ids of the candidates a search returned
Returned(call) == {call.ret[i].id : i \in 1..Len(call.ret)}

\* C4: the list search_people returns for a requester holds no candidate
\* whose id is in the requester's blacklist.
C4_NoBlacklistedReturned ==
    last.op = "search_people" =>
        \A c \in Returned(last) : ~PairExists(blacklist, last.user_id, c)

\* C5: a search returns no candidate that was viewed or blacklisted for the
\* requester before it, and every candidate it returns is recorded as viewed
\* for the requester after it.
C5_SurfacedOnce ==
    [][last'.op = "search_people" /\ UserExists(last'.user_id) =>
          \A c \in Returned(last') :
             /\ ~PairExists(viewed_profiles, last'.user_id, c)
             /\ ~PairExists(blacklist, last'.user_id, c)
             /\ PairExists(viewed_profiles', last'.user_id, c)]_vars

\* a raw item that is not deactivated and has a photo that is no placeholder
Survivor(item) ==
    /\ "deactivated" \notin DOMAIN item \/ item.deactivated = ""
    /\ "photo_100" \in DOMAIN item
    /\ item.photo_100 # <<>>
    /\ ~Contains(item.photo_100, camera)

\* the raw items the search answered with
RawAnswer ==
    IF response.raises \/ "items" \notin DOMAIN response.body
    THEN <<>>
    ELSE response.body.items

\* the places of the raw items that survive and give this candidate
Sources(candidate) ==
    {i \in 1..Len(RawAnswer) :
        Survivor(RawAnswer[i]) /\ Candidate(RawAnswer[i]) = candidate}

\* C13: every candidate search_people returns comes from a raw item that is
\* not deactivated and has a photo_100 that is not empty and does not
\* contain 'camera'; an id whose raw items are all deactivated is not
\* returned.
C13_Filtered ==
    last.op = "search_people" =>
        /\ \A k \in 1..Len(last.ret) : Sources(last.ret[k]) # {}
        /\ \A c \in Returned(last) :
               \E i \in 1..Len(RawAnswer) :
                  RawAnswer[i].id = c /\ "deactivated" \notin DOMAIN RawAnswer[i]

\* a deactivated profile with a photo was answered, and nothing is returned
C13_Witness ==
    /\ last.op = "search_people"
    /\ Len(RawAnswer) = 1
    /\ "deactivated" \in DOMAIN RawAnswer[1]
    /\ "photo_100" \in DOMAIN RawAnswer[1]
    /\ last.ret = <<>>

\* the number of raw items that survive
Survivors == Cardinality({i \in 1..Len(RawAnswer) : Survivor(RawAnswer[i])})

\* how often a candidate is in a result
Occurrences(result, candidate) ==
    Cardinality({k \in 1..Len(result) : result[k] = candidate})

\* C14: search_people returns min(50, k) candidates, k being the number of
\* raw items that survive, and no candidate more often than raw items that
\* survive give it.
C14_Truncated ==
    last.op = "search_people" =>
        /\ Len(last.ret) = IF Survivors < 50 THEN Survivors ELSE 50
        /\ \A k \in 1..Len(last.ret) :
               Occurrences(last.ret, last.ret[k]) <= Cardinality(Sources(last.ret[k]))

\* 51 profiles survived and 50 were returned, the first of them last
C14_Witness ==
    /\ last.op = "search_people"
    /\ Survivors = 51
    /\ Len(last.ret) = 50
    /\ RawAnswer[1].id = 2
    /\ last.ret[50].id = 2

(***************************************************************************)
(* Properties of the search parameters.                                    *)
(***************************************************************************)
BuiltParams == last.op = "_build_search_params"

RequesterAge == Get(user_info, "age", None)

ConfiguredRange == Get(SEARCH_CONFIG, "age_range", 5)

\* C6: for every requester age (unknown, or 10..100) and every age_range in
\* 1..20, the parameters built have 18 <= age_from <= 80 and
\* 18 <= age_to <= 80.
C6_AgeBandInside ==
    BuiltParams =>
        /\ 18 <= last.ret.age_from /\ last.ret.age_from <= 80
        /\ 18 <= last.ret.age_to /\ last.ret.age_to <= 80

\* C7: with a known requester age, age_from is the larger of 18 and
\* age - age_range and age_to the smaller of 80 and age + age_range, so that
\* age_to - age_from = 2 * age_range when neither is clamped; with an unknown
\* age the band is 18..35.
C7_AgeBand ==
    BuiltParams =>
        IF RequesterAge # None
        THEN /\ last.ret.age_from >= 18
             /\ last.ret.age_from >= RequesterAge - ConfiguredRange
             /\ last.ret.age_from \in {18, RequesterAge - ConfiguredRange}
             /\ last.ret.age_to <= 80
             /\ last.ret.age_to <= RequesterAge + ConfiguredRange
             /\ last.ret.age_to \in {80, RequesterAge + ConfiguredRange}
             /\ (RequesterAge - ConfiguredRange >= 18
                 /\ RequesterAge + ConfiguredRange <= 80
                 => last.ret.age_to - last.ret.age_from = 2 * ConfiguredRange)
        ELSE last.ret.age_from = 18 /\ last.ret.age_to = 35

\* the band of a requester of 25 under age_range 5 is 20..30, unclamped
C7_Witness ==
    /\ BuiltParams
    /\ RequesterAge = 25
    /\ ConfiguredRange = 5
    /\ last.ret.age_from = 20
    /\ last.ret.age_to = 30

\* C8: a requester of sex 1 (female) gets sex = 2, one of sex 2 (male) gets
\* sex = 1, one of sex 0 or without a sex gets no sex key; has_photo is 1 in
\* every case.
C8_OppositeSex ==
    BuiltParams =>
        /\ last.ret.has_photo = 1
        /\ Get(user_info, "sex", 0) = 1 => "sex" \in DOMAIN last.ret /\ last.ret.sex = 2
        /\ Get(user_info, "sex", 0) = 2 => "sex" \in DOMAIN last.ret /\ last.ret.sex = 1
        /\ Get(user_info, "sex", 0) = 0 => "sex" \notin DOMAIN last.ret

\* the parameters of a female requester ask for male candidates
C8_Witness ==
    /\ BuiltParams
    /\ "sex" \in DOMAIN user_info
    /\ user_info.sex = 1
    /\ "sex" \in DOMAIN last.ret
    /\ last.ret.sex = 2
    /\ last.ret.has_photo = 1

\* C9: the city is lowercased, trimmed and folded before the lookup; when
\* the folded or the unfolded form is a key of CITIES the city filter is that
\* key's identifier, otherwise there is no city filter and the country scope
\* remains.
C9_CityLookup ==
    BuiltParams =>
        IF NormalizedCity(user_info) \in DOMAIN CITIES \/ RawCity(user_info) \in DOMAIN CITIES
        THEN /\ "city" \in DOMAIN last.ret
             /\ \E name \in {NormalizedCity(user_info), RawCity(user_info)} \cap DOMAIN CITIES :
                    last.ret.city = CITIES[name]
        ELSE /\ "city" \notin DOMAIN last.ret
             /\ "country" \in DOMAIN last.ret

(***************************************************************************)
(* Properties of the age.                                                  *)
(***************************************************************************)
Computed == last.op = "_calculate_age"

Date(d, m, y) == d \o <<".">> \o m \o <<".">> \o y

\* C10: for a date of at least three dot-separated parts whose third part is
\* the integer Y, the result is current_year - Y exactly when that is in
\* 10..100, and None otherwise; it is None for the empty string, for fewer
\* than three parts and for a third part that is no integer.
C10_Age ==
    Computed =>
        /\ IF bdate # <<>> /\ Len(split(bdate, ".")) >= 3
              /\ IsIntLiteral(split(bdate, ".")[3])
           THEN LET Y == int(split(bdate, ".")[3])
                IN  IF current_year - Y \in 10..100
                    THEN last.ret = current_year - Y
                    ELSE last.ret = None
           ELSE last.ret = None
        /\ bdate \in {<<>>, <<"1", ".", "1">>, invalid_date} => last.ret = None
        /\ bdate = Date(<<"1">>, <<"1">>, <<"1", "9", "9", "9">>) =>
               last.ret = current_year - 1999
        /\ bdate = Date(<<"1">>, <<"1">>, <<"2", "0", "1", "6">>) =>
               last.ret = IF current_year = 2026 THEN 10 ELSE None
        /\ bdate = Date(<<"1">>, <<"1">>, <<"1", "9", "2", "5">>) =>
               last.ret = IF current_year = 2025 THEN 100 ELSE None
        /\ bdate = Date(<<"1">>, <<"1">>, <<"1", "9", "x", "9">>) => last.ret = None

\* in 2026 a birth year of 1926 is an age of 100, the oldest that is kept
C10_Witness ==
    /\ Computed
    /\ bdate = Date(<<"1">>, <<"1">>, <<"1", "9", "2", "6">>)
    /\ current_year = 2026
    /\ last.ret = 100

(***************************************************************************)
(* Properties of the photo ranking.                                        *)
(***************************************************************************)
RankedPhotos == last.op = "get_popular_photos"

\* the photos photos.get answered with
InputPhotos ==
    IF photos_response.raises \/ "items" \notin DOMAIN photos_response.body
    THEN <<>>
    ELSE photos_response.body.items

\* the ways to find each photo of a result at a place of its own in a list
Places(result, list) ==
    {pos \in [1..Len(result) -> 1..Len(list)] :
        /\ \A i \in 1..Len(result) : list[pos[i]] = result[i]
        /\ \A i, j \in 1..Len(result) : pos[i] = pos[j] => i = j}

\* C11: the list get_popular_photos returns is sorted non-increasing by
\* likes + comments, its photos of equal score are in their input order, it
\* has at most max_photos photos, and it is empty for an empty input.
C11_Ranked ==
    RankedPhotos =>
        /\ \A i, j \in 1..Len(last.ret) :
               i < j => Score(last.ret[i]) >= Score(last.ret[j])
        /\ \E pos \in Places(last.ret, InputPhotos) :
               \A i, j \in 1..Len(last.ret) :
                  i < j /\ Score(last.ret[i]) = Score(last.ret[j]) => pos[i] < pos[j]
        /\ Len(last.ret) <= max_photos
        /\ InputPhotos = <<>> => last.ret = <<>>

\* two different photos of one score were ranked, and the list was cut
C11_Witness ==
    /\ RankedPhotos
    /\ Len(InputPhotos) = 4
    /\ Len(last.ret) = 2
    /\ max_photos = 2
    /\ Score(last.ret[1]) = Score(last.ret[2])
    /\ last.ret[1] # last.ret[2]
    /\ Score(InputPhotos[1]) < Score(last.ret[1])
    /\ InputPhotos[2] = last.ret[1]
    /\ InputPhotos[3] = last.ret[2]

\* the number of photos with at least min_likes likes
Qualifying == Len(SelectSeq(InputPhotos, LAMBDA x : Likes(x) >= min_likes))

\* C12: with fewer than 3 photos of at least min_likes likes the result is
\* the first max_photos photos of the whole score-sorted list, not empty for
\* a non-empty input; with 3 or more it is the first max_photos photos of
\* the score-sorted list of the photos with at least min_likes likes.
C12_Threshold ==
    RankedPhotos =>
        IF Qualifying < 3
        THEN /\ last.ret = Slice(Sorted(InputPhotos), max_photos)
             /\ InputPhotos # <<>> => last.ret # <<>>
        ELSE last.ret = Slice(SelectSeq(Sorted(InputPhotos),
                                        LAMBDA x : Likes(x) >= min_likes),
                              max_photos)

\* no photo of a non-empty list has the likes, and photos are returned
C12_Witness ==
    /\ RankedPhotos
    /\ InputPhotos # <<>>
    /\ Qualifying = 0
    /\ last.ret # <<>>

(***************************************************************************)
(* Properties of the failures of the VK API.                               *)
(***************************************************************************)
\* C22: get_popular_photos returns the empty list when photos.get raises
\* the ApiError of code 30, another ApiError or another exception, and
\* search_people returns the empty list when users.search raises.
C22_FailuresEmpty ==
    /\ last.op = "get_popular_photos" /\ photos_response.raises => last.ret = <<>>
    /\ last.op = "search_people" /\ response.raises => last.ret = <<>>

\* nothing was returned for the photos of a profile whose album fails with
\* another error than the private profile's, while the search succeeds
C22_Witness ==
    /\ last.op = "get_popular_photos"
    /\ photos_response.raises
    /\ photos_response.error.code # 30
    /\ ~response.raises
    /\ Len(RawAnswer) = 1
    /\ last.ret = <<>>

====
